---- MODULE Spec2Model ----
(***************************************************************************)
(* Model of the pagination session of src/main.py (class Pagination) and   *)
(* of the parts of UserData it calls: the saved-exercise table and the     *)
(* daily calorie ledger.                                                   *)
(*                                                                         *)
(* Numbers.  Python computes the page totals in floating point.  Here a    *)
(* nutrition quantity is an integer number of hundredths (0.01 kcal or g): *)
(* the records below are chosen so that value * (100 / serving_size_g) is  *)
(* an exact multiple of 0.25, hence exact in binary floating point too.    *)
(* The goal and the ledger are kept in the same unit.                      *)
(***************************************************************************)
EXTENDS Integers, Sequences, FiniteSets, TLC

\* ---------------------------------------------------------------- bounds
MaxLen == 7          \* longest result set handed to paginate
MaxConsumed == 2100  \* eat is not explored beyond this ledger value (kcal)
MaxFoods == 3        \* longest result set of the page-by-page browsing

\* ------------------------------------------------------- program constants
MinPageSize == 1
MaxPageSize == 3
DefaultPageSize == 1
DefaultServingSize == 100
SmallServing == 100     \* serving_size < 100: a small serving
DenseCalories == 300    \* calories > 300 per 100 g: calorie dense
LowCalories == 100      \* page_calories < 100: low-calorie advice
HighCalories == 300     \* page_calories > 300: high-calorie advice
MinFat == 10
MaxFat == 20
MinProtein == 5
MaxProtein == 20
MaxSugar == 10

\* ------------------------------------------------------------------ inputs
\* Nutrition records as the provider returns them.  Only the fields the
\* aggregation reads are kept; E lacks serving_size_g.
FoodA == [name |-> "A", calories |-> 160, serving_size_g |-> 50,
          fat_total_g |-> 5, protein_g |-> 2, sugar_g |-> 6]
FoodB == [name |-> "B", calories |-> 100, serving_size_g |-> 100,
          fat_total_g |-> 10, protein_g |-> 5, sugar_g |-> 4]
FoodC == [name |-> "C", calories |-> 250, serving_size_g |-> 100,
          fat_total_g |-> 25, protein_g |-> 3, sugar_g |-> 12]
FoodD == [name |-> "D", calories |-> 101, serving_size_g |-> 80,
          fat_total_g |-> 1, protein_g |-> 1, sugar_g |-> 1]
FoodE == [name |-> "E", calories |-> 50,
          fat_total_g |-> 1, protein_g |-> 1, sugar_g |-> 1]
FoodPool == <<FoodC, FoodA, FoodB, FoodD, FoodE>>

\* Two more records for the pages of the aggregation: a light one, and a
\* second small and calorie-dense one.
FoodF == [name |-> "F", calories |-> 50, serving_size_g |-> 100,
          fat_total_g |-> 10, protein_g |-> 15, sugar_g |-> 6]
FoodG == [name |-> "G", calories |-> 200, serving_size_g |-> 40,
          fat_total_g |-> 2, protein_g |-> 2, sugar_g |-> 2]
Foods == {FoodA, FoodB, FoodC, FoodD, FoodE, FoodF, FoodG}

\* Exercise records; two different records carry the name "Squat".
ExSquat == [name |-> "Squat", type |-> "strength"]
ExPlank == [name |-> "Plank", type |-> "strength"]
ExSquat2 == [name |-> "Squat", type |-> "powerlifting"]
ExercisePool == <<ExSquat, ExPlank, ExSquat2>>

NutritionFields == {"name", "calories", "serving_size_g", "fat_total_g",
                    "protein_g", "sugar_g"}
ExerciseFields == {"name", "type"}

\* The result set of length n drawn cyclically from a pool.
ResultSet(pool, n) == [i \in 1..n |-> pool[((i - 1) % Len(pool)) + 1]]

Modes == {"exercise", "nutrition"}

\* What the user may type at the "Enter: " prompt.
Inputs == {"n", "N", "p", "P", "s", "S", "u", "U", "e", "E", "m", "M", "x"}

\* What the user may type at the page-size prompt.
SizeInputs == {"cancel", "Cancel", "abc", "0", "1", "2", "3", "4"}

\* ------------------------------------------------------------------- state
VARIABLES
    pc,                 \* "menu", "prompt" (inside paginate), "page_size", "crashed"
    page_size,          \* Pagination.page_size
    config_page_size,   \* 'page_size' entry of config.txt, <<>> when absent
    data,               \* Pagination.data
    mode,               \* Pagination.mode
    current_page,       \* Pagination.current_page
    total_pages,        \* Pagination.total_pages
    display_data,       \* Pagination.display_data: <<>> for False, <<record>> otherwise
    serving_size_check, \* Pagination.serving_size_check
    mindful_food,       \* Pagination.mindful_food, as a sequence of string pieces
    page_calories,      \* Pagination.page_calories (hundredths)
    page_fat,           \* Pagination.page_fat (hundredths)
    page_protein,       \* Pagination.page_protein (hundredths)
    page_sugar,         \* Pagination.page_sugar (hundredths)
    eaten_pages,        \* Pagination.eaten_pages
    saved,              \* rows of table SavedExercises
    consumed,           \* DailyCalories.Consumed of today (hundredths)
    goal,               \* UserData.goal (hundredths)
    out                 \* the last message printed by paginate

aggregate == <<serving_size_check, mindful_food, page_calories, page_fat,
               page_protein, page_sugar>>
session == <<data, mode, current_page, total_pages, display_data, eaten_pages>>
store == <<saved, consumed, goal>>
vars == <<pc, page_size, config_page_size, session, aggregate, store, out>>

\* ------------------------------------------------------------ pure helpers
Min(a, b) == IF a < b THEN a ELSE b

\* dict.get(field, default)
Get(rec, field, default) == IF field \in DOMAIN rec THEN rec[field] ELSE default

\* Mutant of Normalized: the factor is left out.
Normalized_no_factor(value, serving_size) == value * 100

\* value * factor with factor = 100 / serving_size, in hundredths
Normalized(value, serving_size) == (value * 100 * 100) \div serving_size

\* round(x, 1) on a value given in hundredths: to the nearest tenth, a tie
\* going to the even tenth
round1(x) ==
    LET q == x \div 10
        r == x % 10
    IN  IF r < 5 THEN q * 10
        ELSE IF r > 5 THEN (q + 1) * 10
        ELSE IF q % 2 = 0 THEN q * 10 ELSE (q + 1) * 10

\* Mutant of lower: the line is compared as it was typed.
lower_as_typed(s) == s

\* str.lower() on the inputs of the model
lower(s) ==
    CASE s = "N" -> "n" [] s = "P" -> "p" [] s = "S" -> "s" [] s = "U" -> "u"
      [] s = "E" -> "e" [] s = "M" -> "m" [] s = "Cancel" -> "cancel"
      [] OTHER -> s

\* int(new_size): <<value>>, or <<>> for ValueError
int(s) ==
    CASE s = "0" -> <<0>> [] s = "1" -> <<1>> [] s = "2" -> <<2>>
      [] s = "3" -> <<3>> [] s = "4" -> <<4>> [] OTHER -> <<>>

\* ---------------------------------------------------------------- UserData
\* Mutant of is_saved: count > 1 instead of count > 0.
is_saved_more_than_one(rows, exercise_name) ==
    Cardinality({r \in rows : r.ExerciseName = exercise_name}) > 1

is_saved(rows, exercise_name) ==
    Cardinality({r \in rows : r.ExerciseName = exercise_name}) > 0

\* INSERT OR REPLACE on the primary key ExerciseName
add_save(rows, exercise_name, details) ==
    {r \in rows : r.ExerciseName # exercise_name}
        \cup {[ExerciseName |-> exercise_name, ExerciseDetails |-> details]}

\* Mutant of delete_save: DELETE without the WHERE clause.
delete_save_all(rows, exercise_name) == {}

delete_save(rows, exercise_name) ==
    {r \in rows : r.ExerciseName # exercise_name}

get_consumed_calories(ledger) == round1(ledger)

\* Mutant of track_consumed_calories: <= instead of < against the goal.
track_consumed_calories_le(ledger, the_goal, amount) ==
    LET new_ledger == ledger + round1(amount)
        consumed_calories == get_consumed_calories(new_ledger)
    IN  [ledger |-> new_ledger,
         check |-> IF consumed_calories <= the_goal
                   THEN <<TRUE, consumed_calories>>
                   ELSE <<FALSE, consumed_calories>>]

\* The new ledger value and the returned pair (goal not reached, total).
track_consumed_calories(ledger, the_goal, amount) ==
    LET new_ledger == ledger + round1(amount)
        consumed_calories == get_consumed_calories(new_ledger)
    IN  [ledger |-> new_ledger,
         check |-> IF consumed_calories < the_goal
                   THEN <<TRUE, consumed_calories>>
                   ELSE <<FALSE, consumed_calories>>]

\* -------------------------------------------------------------- Pagination
\* display_exercise / display_nutrition index the record with [...]: a
\* missing field raises KeyError.
display_exercise(record) == ExerciseFields \subseteq DOMAIN record

display_nutrition(record) == NutritionFields \subseteq DOMAIN record

\* The state display_page works on, before its loop.
page_start ==
    [display_data |-> <<>>, serving_size_check |-> TRUE, mindful_food |-> <<>>,
     page_calories |-> 0, page_fat |-> 0, page_protein |-> 0, page_sugar |-> 0,
     raised |-> FALSE]

\* Mutant of show_exercise: display_data keeps the first record of the page.
show_exercise_first(acc, record) ==
    [acc EXCEPT !.display_data = IF @ = <<>> THEN <<record>> ELSE @,
                !.raised = ~display_exercise(record)]

\* One iteration of the loop of display_page in exercise mode.
show_exercise(acc, record) ==
    [acc EXCEPT !.display_data = <<record>>,
                !.raised = ~display_exercise(record)]

\* Mutant of mindful: the calories are not looked at.
mindful_small_only(serving_size, calories) == serving_size < SmallServing

\* serving_size < 100 and calories > 300 (calories in hundredths)
mindful(serving_size, calories) ==
    serving_size < SmallServing /\ calories > DenseCalories * 100

\* Mutant of show_nutrition: the calories are totalled as listed, not per 100 g.
show_nutrition_raw_total(acc, record) ==
    LET serving_size == Get(record, "serving_size_g", DefaultServingSize)
        calories == Normalized(Get(record, "calories", 0), serving_size)
        dense == mindful(serving_size, calories)
        scanned ==
            IF serving_size >= SmallServing /\ acc.serving_size_check
            THEN [acc EXCEPT !.serving_size_check = TRUE]
            ELSE IF ~acc.serving_size_check
            THEN IF dense
                 THEN [acc EXCEPT !.mindful_food = @ \o <<" and ", Get(record, "name", "None")>>]
                 ELSE acc
            ELSE IF dense
                 THEN [acc EXCEPT !.serving_size_check = FALSE,
                                  !.mindful_food = @ \o <<Get(record, "name", "None")>>]
                 ELSE acc
    IN  [scanned EXCEPT
            !.display_data = <<record>>,
            !.page_calories = @ + Get(record, "calories", 0),
            !.page_fat = @ + Normalized(Get(record, "fat_total_g", 0), serving_size),
            !.page_protein = @ + Normalized(Get(record, "protein_g", 0), serving_size),
            !.page_sugar = @ + Normalized(Get(record, "sugar_g", 0), serving_size),
            !.raised = ~display_nutrition(record)]

\* One iteration of the loop of display_page in nutrition mode.
show_nutrition(acc, record) ==
    LET serving_size == Get(record, "serving_size_g", DefaultServingSize)
        calories == Normalized(Get(record, "calories", 0), serving_size)
        dense == mindful(serving_size, calories)
        scanned ==
            IF serving_size >= SmallServing /\ acc.serving_size_check
            THEN [acc EXCEPT !.serving_size_check = TRUE]
            ELSE IF ~acc.serving_size_check
            THEN IF dense
                 THEN [acc EXCEPT !.mindful_food = @ \o <<" and ", Get(record, "name", "None")>>]
                 ELSE acc
            ELSE IF dense
                 THEN [acc EXCEPT !.serving_size_check = FALSE,
                                  !.mindful_food = @ \o <<Get(record, "name", "None")>>]
                 ELSE acc
    IN  [scanned EXCEPT
            !.display_data = <<record>>,
            !.page_calories = @ + calories,
            !.page_fat = @ + Normalized(Get(record, "fat_total_g", 0), serving_size),
            !.page_protein = @ + Normalized(Get(record, "protein_g", 0), serving_size),
            !.page_sugar = @ + Normalized(Get(record, "sugar_g", 0), serving_size),
            !.raised = ~display_nutrition(record)]

\* The loop of display_page over page_data[k..]; it stops at an exception.
RECURSIVE show_records(_, _, _, _)
show_records(page_data, k, the_mode, acc) ==
    IF k > Len(page_data) \/ acc.raised THEN acc
    ELSE show_records(page_data, k + 1, the_mode,
                      IF the_mode = "exercise" THEN show_exercise(acc, page_data[k])
                      ELSE IF the_mode = "nutrition" THEN show_nutrition(acc, page_data[k])
                      ELSE [acc EXCEPT !.display_data = <<page_data[k]>>])

\* data[start_index:end_index]
page_slice(the_data, page, size) ==
    LET start_index == (page - 1) * size
        end_index == Min(start_index + size, Len(the_data))
    IN  IF start_index >= end_index THEN <<>>
        ELSE SubSeq(the_data, start_index + 1, end_index)

\* display_page: the fields it leaves behind, and whether it raised.
display_page(the_data, page, size, the_mode) ==
    LET page_data == page_slice(the_data, page, size)
    IN  IF page_data = <<>> THEN page_start
        ELSE show_records(page_data, 1, the_mode, page_start)

\* len(data) // page_size + (len(data) % page_size > 0)
count_pages(length, size) ==
    (length \div size) + (IF length % size > 0 THEN 1 ELSE 0)

\* Mutant of nutritional_advice: <= instead of < against 100 calories.
nutritional_advice_le ==
    LET warning == <<"Be mindful of ">> \o mindful_food
                       \o <<". Small amount occasionally can be okay">>
    IN  IF page_calories <= LowCalories * 100
        THEN <<"Low-calorie">>
        ELSE IF LowCalories * 100 <= page_calories
                /\ page_calories <= HighCalories * 100
        THEN IF /\ MinFat * 100 <= page_fat /\ page_fat <= MaxFat * 100
                /\ MinProtein * 100 <= page_protein
                /\ page_protein <= MaxProtein * 100
                /\ page_sugar <= MaxSugar * 100
             THEN <<"Moderate-calorie: Balanced">>
             ELSE <<"Moderate-calorie: Consider optimizing">>
                  \o (IF page_fat < MinFat * 100
                      THEN <<"Increase healthy fats">>
                      ELSE IF page_fat > MaxFat * 100
                      THEN <<"Limit saturated fats">>
                      ELSE <<>>)
                  \o (IF page_protein < MinProtein * 100
                      THEN <<"Include more protein">> ELSE <<>>)
                  \o (IF page_sugar > MaxSugar * 100
                      THEN <<"Be mindful of added sugars">> ELSE <<>>)
                  \o (IF ~serving_size_check THEN warning ELSE <<>>)
        ELSE <<"High-calorie">>
             \o (IF ~serving_size_check THEN warning ELSE <<>>)

\* nutritional_advice: the advice as the sequence of its sentences; the
\* totals are in hundredths.
nutritional_advice ==
    LET warning == <<"Be mindful of ">> \o mindful_food
                       \o <<". Small amount occasionally can be okay">>
    IN  IF page_calories < LowCalories * 100
        THEN <<"Low-calorie">>
        ELSE IF LowCalories * 100 <= page_calories
                /\ page_calories <= HighCalories * 100
        THEN IF /\ MinFat * 100 <= page_fat /\ page_fat <= MaxFat * 100
                /\ MinProtein * 100 <= page_protein
                /\ page_protein <= MaxProtein * 100
                /\ page_sugar <= MaxSugar * 100
             THEN <<"Moderate-calorie: Balanced">>
             ELSE <<"Moderate-calorie: Consider optimizing">>
                  \o (IF page_fat < MinFat * 100
                      THEN <<"Increase healthy fats">>
                      ELSE IF page_fat > MaxFat * 100
                      THEN <<"Limit saturated fats">>
                      ELSE <<>>)
                  \o (IF page_protein < MinProtein * 100
                      THEN <<"Include more protein">> ELSE <<>>)
                  \o (IF page_sugar > MaxSugar * 100
                      THEN <<"Be mindful of added sugars">> ELSE <<>>)
                  \o (IF ~serving_size_check THEN warning ELSE <<>>)
        ELSE <<"High-calorie">>
             \o (IF ~serving_size_check THEN warning ELSE <<>>)

\* save_unsave: the option it returns, "" for none
save_unsave ==
    IF mode = "nutrition" \/ display_data = <<>> THEN ""
    ELSE IF is_saved(saved, display_data[1].name) THEN "u" ELSE "s"

\* Mutant of not_eaten: the page is never found in eaten_pages.
not_eaten_always(pages, page) == TRUE

\* current_page not in eaten_pages
not_eaten(pages, page) == \A i \in 1..Len(pages) : pages[i] # page

\* input_text, first condition: the advice is printed
advice_shown ==
    mode = "nutrition" /\ display_data # <<>> /\ not_eaten(eaten_pages, current_page)

\* Mutant of eat_offered: the eaten pages are not consulted.
eat_offered_always == mode = "nutrition" /\ display_data # <<>>

\* input_text, last condition: the e option is printed
eat_offered ==
    mode = "nutrition" /\ display_data # <<>> /\ not_eaten(eaten_pages, current_page)

\* Mutant of input_text: total_pages < 1 instead of total_pages <= 1.
input_text_lt ==
    (IF total_pages < 1 THEN {}
     ELSE IF current_page = 1 THEN {"n"}
     ELSE IF current_page = total_pages THEN {"p"}
     ELSE {"n", "p"})
    \cup (IF save_unsave = "" THEN {} ELSE {save_unsave})
    \cup {"m"}
    \cup (IF eat_offered THEN {"e"} ELSE {})

\* input_text: the options printed at the prompt
input_text ==
    (IF total_pages <= 1 THEN {}
     ELSE IF current_page = 1 THEN {"n"}
     ELSE IF current_page = total_pages THEN {"p"}
     ELSE {"n", "p"})
    \cup (IF save_unsave = "" THEN {} ELSE {save_unsave})
    \cup {"m"}
    \cup (IF eat_offered THEN {"e"} ELSE {})

\* The assignments display_page makes, given what it computed.
displayed(shown) ==
    /\ display_data' = shown.display_data
    /\ serving_size_check' = shown.serving_size_check
    /\ mindful_food' = shown.mindful_food
    /\ page_calories' = shown.page_calories
    /\ page_fat' = shown.page_fat
    /\ page_protein' = shown.page_protein
    /\ page_sugar' = shown.page_sugar

\* A message of paginate: its text, the calories it names, the overage.
message(text, added, over) == [text |-> text, added |-> added, over |-> over]

\* What display_page prints: the records, or the placeholder of an empty page.
rendered(shown) ==
    message(IF shown.display_data = <<>> THEN "No results found. Keep pushing!"
            ELSE "page", 0, 0)

\* Pagination.load_page_size: data.get('page_size', 1)
load_page_size(config) == IF config = <<>> THEN DefaultPageSize ELSE config[1]

\* The result sets the provider, the saved list or the history can hand over.
ResultSets(the_mode) ==
    {ResultSet(IF the_mode = "nutrition" THEN FoodPool ELSE ExercisePool, n) :
        n \in 0..MaxLen}

\* UserData() and Pagination(user_data) have been constructed; the
\* attributes paginate creates do not exist yet and are given idle values.
Init ==
    /\ pc = "menu"
    /\ config_page_size = <<>>
    /\ page_size = load_page_size(config_page_size)
    /\ data = <<>>
    /\ mode = ""
    /\ current_page = 0
    /\ total_pages = 0
    /\ display_data = <<>>
    /\ serving_size_check = TRUE
    /\ mindful_food = <<>>
    /\ page_calories = 0
    /\ page_fat = 0
    /\ page_protein = 0
    /\ page_sugar = 0
    /\ eaten_pages = <<>>
    /\ saved = {}
    /\ consumed = 1800 * 100
    /\ goal = 2000 * 100
    /\ out = message("", 0, 0)

\* Mutant of paginate: eaten_pages is not reset.
paginate_keep_eaten(the_data, the_mode) ==
    /\ pc = "menu"
    /\ data' = the_data
    /\ total_pages' = count_pages(Len(the_data), page_size)
    /\ current_page' = 1
    /\ mode' = the_mode
    /\ LET shown == display_page(the_data, 1, page_size, the_mode)
       IN  /\ displayed(shown)
           /\ IF shown.raised
              THEN pc' = "crashed" /\ UNCHANGED out
              ELSE pc' = "prompt" /\ out' = rendered(shown)
    /\ UNCHANGED <<page_size, config_page_size, store, eaten_pages>>

\* paginate, up to its loop: lines 558-563.
paginate(the_data, the_mode) ==
    /\ pc = "menu"
    /\ data' = the_data
    /\ total_pages' = count_pages(Len(the_data), page_size)
    /\ current_page' = 1
    /\ mode' = the_mode
    /\ LET shown == display_page(the_data, 1, page_size, the_mode)
       IN  /\ displayed(shown)
           /\ IF shown.raised
              THEN pc' = "crashed" /\ UNCHANGED <<eaten_pages, out>>
              ELSE /\ pc' = "prompt"
                   /\ eaten_pages' = <<>>
                   /\ out' = rendered(shown)
    /\ UNCHANGED <<page_size, config_page_size, store>>

\* Mutant of next_page: <= instead of < against total_pages.
next_page_le(line) ==
    /\ pc = "prompt"
    /\ lower(line) = "n"
    /\ IF current_page <= total_pages
       THEN LET shown == display_page(data, current_page + 1, page_size, mode)
            IN  /\ current_page' = current_page + 1
                /\ displayed(shown)
                /\ IF shown.raised
                   THEN pc' = "crashed" /\ UNCHANGED out
                   ELSE pc' = "prompt" /\ out' = rendered(shown)
       ELSE /\ out' = message("Next page doesn't exist.", 0, 0)
            /\ UNCHANGED <<pc, current_page, display_data, aggregate>>
    /\ UNCHANGED <<page_size, config_page_size, data, mode, total_pages,
                   eaten_pages, store>>

\* The loop of paginate reads a line: 'n'.
next_page(line) ==
    /\ pc = "prompt"
    /\ lower(line) = "n"
    /\ IF current_page < total_pages
       THEN LET shown == display_page(data, current_page + 1, page_size, mode)
            IN  /\ current_page' = current_page + 1
                /\ displayed(shown)
                /\ IF shown.raised
                   THEN pc' = "crashed" /\ UNCHANGED out
                   ELSE pc' = "prompt" /\ out' = rendered(shown)
       ELSE /\ out' = message("Next page doesn't exist.", 0, 0)
            /\ UNCHANGED <<pc, current_page, display_data, aggregate>>
    /\ UNCHANGED <<page_size, config_page_size, data, mode, total_pages,
                   eaten_pages, store>>

\* Mutant of previous_page: the page is not displayed again.
previous_page_no_display(line) ==
    /\ pc = "prompt"
    /\ lower(line) = "p"
    /\ IF current_page > 1
       THEN /\ current_page' = current_page - 1
            /\ out' = message("page", 0, 0)
            /\ UNCHANGED <<pc, display_data, aggregate>>
       ELSE /\ out' = message("Previous page doesn't exist.", 0, 0)
            /\ UNCHANGED <<pc, current_page, display_data, aggregate>>
    /\ UNCHANGED <<page_size, config_page_size, data, mode, total_pages,
                   eaten_pages, store>>

\* The loop of paginate reads a line: 'p'.
previous_page(line) ==
    /\ pc = "prompt"
    /\ lower(line) = "p"
    /\ IF current_page > 1
       THEN LET shown == display_page(data, current_page - 1, page_size, mode)
            IN  /\ current_page' = current_page - 1
                /\ displayed(shown)
                /\ IF shown.raised
                   THEN pc' = "crashed" /\ UNCHANGED out
                   ELSE pc' = "prompt" /\ out' = rendered(shown)
       ELSE /\ out' = message("Previous page doesn't exist.", 0, 0)
            /\ UNCHANGED <<pc, current_page, display_data, aggregate>>
    /\ UNCHANGED <<page_size, config_page_size, data, mode, total_pages,
                   eaten_pages, store>>

\* The guards of the s, u and e branches of the loop.
save_branch(line) ==
    lower(line) = "s" /\ mode = "exercise" /\ display_data # <<>>

unsave_branch(line) ==
    lower(line) = "u" /\ mode = "exercise" /\ display_data # <<>>

\* Mutant of eat_branch: e is taken on an empty page too.
eat_branch_any_page(line) == lower(line) = "e" /\ mode = "nutrition"

eat_branch(line) ==
    lower(line) = "e" /\ mode = "nutrition" /\ display_data # <<>>

\* The s branch: the table and the message it leaves (lines 581-585).
save_exercise(rows, record) ==
    IF is_saved(rows, record.name)
    THEN [saved |-> rows, text |-> "This exercise is already saved."]
    ELSE [saved |-> add_save(rows, record.name, record),
          text |-> "Exercise has been saved."]

\* The u branch: the table and the message it leaves (lines 587-591).
unsave_exercise(rows, record) ==
    IF ~is_saved(rows, record.name)
    THEN [saved |-> rows, text |-> "This exercise is not saved."]
    ELSE [saved |-> delete_save(rows, record.name),
          text |-> "Exercise has been unsaved."]

\* The loop of paginate reads a line: 's' on an exercise.
save(line) ==
    /\ pc = "prompt"
    /\ save_branch(line)
    /\ saved' = save_exercise(saved, display_data[1]).saved
    /\ out' = message(save_exercise(saved, display_data[1]).text, 0, 0)
    /\ UNCHANGED <<pc, page_size, config_page_size, session, aggregate,
                   consumed, goal>>

\* The loop of paginate reads a line: 'u' on an exercise.
unsave(line) ==
    /\ pc = "prompt"
    /\ unsave_branch(line)
    /\ saved' = unsave_exercise(saved, display_data[1]).saved
    /\ out' = message(unsave_exercise(saved, display_data[1]).text, 0, 0)
    /\ UNCHANGED <<pc, page_size, config_page_size, session, aggregate,
                   consumed, goal>>

\* The loop of paginate reads a line: 'e' on a nutrition page.
eat(line) ==
    /\ pc = "prompt"
    /\ eat_branch(line)
    /\ IF not_eaten(eaten_pages, current_page)
       THEN LET consumed_calories == page_calories
                tracked == track_consumed_calories(consumed, goal, consumed_calories)
                check == tracked.check
            IN  /\ tracked.ledger <= MaxConsumed * 100
                /\ consumed' = tracked.ledger
                /\ eaten_pages' = Append(eaten_pages, current_page)
                /\ out' = IF check[1]
                          THEN message("Keep it up!", consumed_calories, 0)
                          ELSE message("over your goal", consumed_calories,
                                       check[2] - goal)
       ELSE /\ out' = message("already added", 0, 0)
            /\ UNCHANGED <<consumed, eaten_pages>>
    /\ UNCHANGED <<pc, page_size, config_page_size, data, mode, current_page,
                   total_pages, display_data, aggregate, saved, goal>>

\* The loop of paginate reads a line: 'm' ends the loop.
main_menu(line) ==
    /\ pc = "prompt"
    /\ lower(line) = "m"
    /\ pc' = "menu"
    /\ UNCHANGED <<page_size, config_page_size, session, aggregate, store, out>>

\* The loop of paginate reads a line: the final else.
invalid_input(line) ==
    /\ pc = "prompt"
    /\ lower(line) \notin {"n", "p", "m"}
    /\ ~save_branch(line) /\ ~unsave_branch(line) /\ ~eat_branch(line)
    /\ out' = message("Invalid input.", 0, 0)
    /\ UNCHANGED <<pc, page_size, config_page_size, session, aggregate, store>>

\* settings_menu: 'Configure Page Size' calls set_page_size.
configure_page_size ==
    /\ pc = "menu"
    /\ pc' = "page_size"
    /\ UNCHANGED <<page_size, config_page_size, session, aggregate, store, out>>

\* Mutant of set_page_size: one size too many is accepted.
set_page_size_wide(new_size) ==
    /\ pc = "page_size"
    /\ IF lower(new_size) = "cancel"
       THEN pc' = "menu" /\ UNCHANGED <<page_size, config_page_size>>
       ELSE IF int(new_size) = <<>>
       THEN UNCHANGED <<pc, page_size, config_page_size>>
       ELSE IF MinPageSize <= int(new_size)[1] /\ int(new_size)[1] <= MaxPageSize + 1
       THEN /\ page_size' = int(new_size)[1]
            /\ config_page_size' = <<int(new_size)[1]>>
            /\ pc' = "menu"
       ELSE UNCHANGED <<pc, page_size, config_page_size>>
    /\ UNCHANGED <<session, aggregate, store, out>>

\* One round of the loop of set_page_size.
set_page_size(new_size) ==
    /\ pc = "page_size"
    /\ IF lower(new_size) = "cancel"
       THEN pc' = "menu" /\ UNCHANGED <<page_size, config_page_size>>
       ELSE IF int(new_size) = <<>>
       THEN UNCHANGED <<pc, page_size, config_page_size>>
       ELSE IF MinPageSize <= int(new_size)[1] /\ int(new_size)[1] <= MaxPageSize
       THEN /\ page_size' = int(new_size)[1]
            /\ config_page_size' = <<int(new_size)[1]>>
            /\ pc' = "menu"
       ELSE UNCHANGED <<pc, page_size, config_page_size>>
    /\ UNCHANGED <<session, aggregate, store, out>>

Next ==
    \/ \E the_mode \in Modes : \E the_data \in ResultSets(the_mode) :
            paginate(the_data, the_mode)
    \/ \E line \in Inputs : next_page(line)
    \/ \E line \in Inputs : previous_page(line)
    \/ \E line \in Inputs : save(line)
    \/ \E line \in Inputs : unsave(line)
    \/ \E line \in Inputs : eat(line)
    \/ \E line \in Inputs : main_menu(line)
    \/ \E line \in Inputs : invalid_input(line)
    \/ configure_page_size
    \/ \E new_size \in SizeInputs : set_page_size(new_size)

Spec == Init /\ [][Next]_vars

\* The nutrition result sets of up to MaxFoods records, in every order.
RECURSIVE FoodLists(_)
FoodLists(n) ==
    IF n = 0 THEN {<<>>}
    ELSE FoodLists(n - 1)
            \cup {Append(list, food) : list \in {l \in FoodLists(n - 1) : Len(l) = n - 1},
                                      food \in Foods}

\* The program starts with any page size set in an earlier run.
InitPages ==
    /\ pc = "menu"
    /\ config_page_size \in {<<size>> : size \in MinPageSize..MaxPageSize}
    /\ page_size = load_page_size(config_page_size)
    /\ data = <<>>
    /\ mode = ""
    /\ current_page = 0
    /\ total_pages = 0
    /\ display_data = <<>>
    /\ serving_size_check = TRUE
    /\ mindful_food = <<>>
    /\ page_calories = 0
    /\ page_fat = 0
    /\ page_protein = 0
    /\ page_sugar = 0
    /\ eaten_pages = <<>>
    /\ saved = {}
    /\ consumed = 1800 * 100
    /\ goal = 2000 * 100
    /\ out = message("", 0, 0)

\* Browsing the nutrition of any such result set, page by page.
NextPages ==
    \/ \E the_data \in FoodLists(MaxFoods) : paginate(the_data, "nutrition")
    \/ \E line \in Inputs : next_page(line)
    \/ \E line \in Inputs : previous_page(line)

SpecPages == InitPages /\ [][NextPages]_vars

\* ------------------------------------------------------------------ claims
\* The number of records paginate was given, and of the page it shows.
Length == Len(data)

PageLength(page) ==
    Cardinality({i \in 1..Len(data) :
                    (page - 1) * page_size < i /\ i <= page * page_size})

\* C1: for every page_size in 1..3 and every result-set length L,
\* total_pages = max(1, ceil(L / page_size)), and the last page holds
\* L - (total_pages - 1) * page_size records (0 records when L = 0).
C1_TotalPages ==
    pc = "prompt" =>
        LET ceil == (Length + page_size - 1) \div page_size
        IN  /\ total_pages = (IF ceil > 1 THEN ceil ELSE 1)
            /\ PageLength(total_pages) =
                  (IF Length = 0 THEN 0
                   ELSE Length - (total_pages - 1) * page_size)

\* C2: in every state of a pagination session, 1 <= current_page <= total_pages.
C2_PageInRange ==
    pc = "prompt" => 1 <= current_page /\ current_page <= total_pages

\* The pages in eaten_pages, and the rows of the table with a given name.
Eaten == {eaten_pages[i] : i \in 1..Len(eaten_pages)}

RowsNamed(rows, name) == {r \in rows : r.ExerciseName = name}

IsPrefix(s, t) == Len(s) <= Len(t) /\ SubSeq(t, 1, Len(s)) = s

\* The steps of the loop of paginate, by the command that was typed.
EatStep == \E line \in Inputs : eat(line)

NextStep == \E line \in Inputs : next_page(line)

PreviousStep == \E line \in Inputs : previous_page(line)

SaveStep == \E line \in Inputs : save(line)

UnsaveStep == \E line \in Inputs : unsave(line)

C4_BoundedNavigation ==
    [][/\ (NextStep /\ current_page = total_pages) =>
            /\ out'.text = "Next page doesn't exist."
            /\ UNCHANGED <<pc, page_size, config_page_size, session,
                           aggregate, store>>
       /\ (PreviousStep /\ current_page = 1) =>
            /\ out'.text = "Previous page doesn't exist."
            /\ UNCHANGED <<pc, page_size, config_page_size, session,
                           aggregate, store>>]_vars

\* C4 witness: next was refused on the last of several pages.
C4_Witness ==
    /\ pc = "prompt"
    /\ out.text = "Next page doesn't exist."
    /\ current_page = total_pages
    /\ total_pages > 1

\* C5: a save on an exercise whose name is already saved leaves the table
\* as it is and reports 'already saved'; after every save the table holds
\* exactly one row of that name.
C5_SaveIdempotent ==
    [][SaveStep =>
        /\ RowsNamed(saved, display_data[1].name) # {} =>
              /\ saved' = saved
              /\ out'.text = "This exercise is already saved."
        /\ Cardinality(RowsNamed(saved', display_data[1].name)) = 1]_vars

\* C5 witness: 'already saved' was reported for a record whose name is in
\* the table with other details.
C5_Witness ==
    /\ pc = "prompt"
    /\ out.text = "This exercise is already saved."
    /\ display_data # <<>>
    /\ \E r \in saved : /\ r.ExerciseName = display_data[1].name
                        /\ r.ExerciseDetails # display_data[1]

\* C6: an unsave of a name that is not saved leaves the table unchanged and
\* reports 'not saved'; otherwise it deletes the row of that name and no
\* other, so the name is not saved afterwards; and saving a name that is
\* not saved, then unsaving it, gives the table back as it was.
C6_Unsave ==
    [][/\ UnsaveStep =>
            IF RowsNamed(saved, display_data[1].name) = {}
            THEN /\ saved' = saved
                 /\ out'.text = "This exercise is not saved."
            ELSE /\ saved' = saved \ RowsNamed(saved, display_data[1].name)
                 /\ RowsNamed(saved', display_data[1].name) = {}
                 /\ out'.text = "Exercise has been unsaved."
       /\ (/\ pc = "prompt" /\ mode = "exercise" /\ display_data # <<>>
           /\ RowsNamed(saved, display_data[1].name) = {}) =>
            unsave_exercise(save_exercise(saved, display_data[1]).saved,
                            display_data[1]).saved = saved]_vars

\* C6 witness: an exercise was unsaved while another one stays saved.
C6_Witness ==
    /\ pc = "prompt"
    /\ out.text = "Exercise has been unsaved."
    /\ display_data # <<>>
    /\ RowsNamed(saved, display_data[1].name) = {}
    /\ saved # {}

\* C7: after an eat that was applied, 'under goal' is reported exactly when
\* the new ledger total is below the goal, and otherwise the overage
\* new total - goal is reported.
C7_GoalReport ==
    [][(EatStep /\ current_page \notin Eaten) =>
        /\ out'.added = page_calories
        /\ (out'.text = "Keep it up!") = (consumed' < goal)
        /\ (out'.text = "over your goal") = (consumed' >= goal)
        /\ consumed' >= goal => out'.over = consumed' - goal]_vars

\* C7 witness: page calories 250, consumed 1800, goal 2000: over by 50.
C7_Witness ==
    /\ pc = "prompt"
    /\ out = message("over your goal", 250 * 100, 50 * 100)
    /\ consumed = 2050 * 100
    /\ goal = 2000 * 100

\* C8: the start of a session sets current_page = 1 and empties eaten_pages;
\* inside a session eaten_pages only grows; it loses an entry only at the
\* start of the next session.
C8_EatenPagesLifetime ==
    [][/\ (pc = "menu" /\ pc' = "prompt") =>
            current_page' = 1 /\ eaten_pages' = <<>>
       /\ pc = "prompt" => IsPrefix(eaten_pages, eaten_pages')
       /\ ~IsPrefix(eaten_pages, eaten_pages') =>
            pc = "menu" /\ pc' = "prompt"]_vars

\* C8 witness: a session has just started after one in which a page was
\* eaten (the ledger has moved, and this session has eaten nothing).
C8_Witness ==
    /\ pc = "prompt"
    /\ out.text = "page"
    /\ current_page = 1
    /\ eaten_pages = <<>>
    /\ consumed > 1800 * 100

\* C9: at every prompt n is offered iff current_page < total_pages, p iff
\* current_page > 1, neither when total_pages = 1 or the result is empty,
\* and s / u are not offered in nutrition mode or on an empty page.
C9_OfferedCommands ==
    pc = "prompt" =>
        /\ ("n" \in input_text) = (current_page < total_pages)
        /\ ("p" \in input_text) = (current_page > 1)
        /\ (total_pages = 1 \/ Length = 0) =>
              "n" \notin input_text /\ "p" \notin input_text
        /\ (mode = "nutrition" \/ PageLength(current_page) = 0) =>
              "s" \notin input_text /\ "u" \notin input_text

\* C9 witness: a prompt on an inner page, where both n and p are offered.
C9_Witness ==
    /\ pc = "prompt"
    /\ 1 < current_page
    /\ current_page < total_pages
    /\ {"n", "p"} \subseteq input_text

\* C10: the e command and the advice are shown under one condition: nutrition
\* mode, a non-empty page, and current_page not in eaten_pages; so e is never
\* offered in exercise mode, and neither is shown on a page that was eaten.
C10_EatAndAdvice ==
    pc = "prompt" =>
        LET condition == /\ mode = "nutrition"
                         /\ PageLength(current_page) > 0
                         /\ current_page \notin Eaten
        IN  /\ ("e" \in input_text) = condition
            /\ advice_shown = condition
            /\ mode = "exercise" => "e" \notin input_text
            /\ current_page \in Eaten =>
                  "e" \notin input_text /\ ~advice_shown

\* C10 witness: the session has come back to a page that was eaten.
C10_Witness ==
    /\ pc = "prompt"
    /\ mode = "nutrition"
    /\ out.text = "page"
    /\ current_page \in Eaten
    /\ "e" \notin input_text

\* The line as a lower-case letter, and the step of the loop that handles it.
Fold(line) ==
    IF line \in {"n", "N"} THEN "n" ELSE IF line \in {"p", "P"} THEN "p"
    ELSE IF line \in {"s", "S"} THEN "s" ELSE IF line \in {"u", "U"} THEN "u"
    ELSE IF line \in {"e", "E"} THEN "e" ELSE IF line \in {"m", "M"} THEN "m"
    ELSE line

Command(line) ==
    \/ next_page(line) \/ previous_page(line) \/ save(line) \/ unsave(line)
    \/ eat(line) \/ main_menu(line) \/ invalid_input(line)

\* C11: a command letter does the same in either case; any other line, s or
\* u outside exercise mode and e outside nutrition mode get the invalid-input
\* message, change no session state and no stored data, and the loop prompts
\* again.
C11_Dispatch ==
    [][\A line \in Inputs :
        /\ Command(line) <=> Command(Fold(line))
        /\ (/\ Command(line)
            /\ \/ Fold(line) \notin {"n", "p", "s", "u", "e", "m"}
               \/ Fold(line) \in {"s", "u"} /\ mode # "exercise"
               \/ Fold(line) = "e" /\ mode # "nutrition") =>
              /\ out'.text = "Invalid input."
              /\ pc' = "prompt"
              /\ UNCHANGED <<page_size, config_page_size, session, aggregate,
                             store>>]_vars

\* C11 witness: a line was rejected in a nutrition session that has eaten a
\* page and is not on its first page.
C11_Witness ==
    /\ pc = "prompt"
    /\ out.text = "Invalid input."
    /\ mode = "nutrition"
    /\ eaten_pages # <<>>
    /\ current_page > 1

\* The records of a page of data, in order.
PageRecords(page) ==
    [i \in 1..PageLength(page) |-> data[(page - 1) * page_size + i]]

\* A record with every field display_page and display_nutrition read.
Complete(record) ==
    DOMAIN record = {"name", "calories", "serving_size_g", "fat_total_g",
                     "protein_g", "sugar_g"}

\* The records display_page went through: all of them, or those up to the
\* first one that is not complete.
RECURSIVE Shown(_)
Shown(records) ==
    IF records = <<>> THEN <<>>
    ELSE IF ~Complete(records[1]) THEN <<records[1]>>
    ELSE <<records[1]>> \o Shown(Tail(records))

\* field * (100 / serving_size_g) of a record, in hundredths, an absent
\* serving_size_g taken as 100 and an absent field as 0.
Per100g(record, field) ==
    LET serving == IF "serving_size_g" \in DOMAIN record
                   THEN record.serving_size_g ELSE 100
        value == IF field \in DOMAIN record THEN record[field] ELSE 0
    IN  (value * 10000) \div serving

RECURSIVE Total(_, _)
Total(records, field) ==
    IF records = <<>> THEN 0
    ELSE Per100g(records[1], field) + Total(Tail(records), field)

\* C12: the four totals display_page leaves are the sums, over the records of
\* the page, of field * (100 / serving_size_g), with the defaults 100 and 0;
\* they are a function of the records of the page alone, whatever was shown
\* before.  (When a record stops the rendering, the sums run up to it.)
C12_PageAggregate ==
    (pc \in {"prompt", "crashed"} /\ mode = "nutrition") =>
        LET records == Shown(PageRecords(current_page))
        IN  /\ pc = "prompt" => records = PageRecords(current_page)
            /\ page_calories = Total(records, "calories")
            /\ page_fat = Total(records, "fat_total_g")
            /\ page_protein = Total(records, "protein_g")
            /\ page_sugar = Total(records, "sugar_g")

\* C12 witness: a page of three records with different serving sizes.
C12_Witness ==
    /\ pc = "prompt"
    /\ mode = "nutrition"
    /\ PageLength(current_page) = 3
    /\ {PageRecords(current_page)[i].serving_size_g : i \in 1..3} = {40, 80, 100}
    /\ page_calories = 72625

\* A record with serving_size_g < 100 and more than 300 kcal per 100 g.
SmallAndDense(record) ==
    /\ "serving_size_g" \in DOMAIN record
    /\ record.serving_size_g < 100
    /\ Per100g(record, "calories") > 300 * 100

\* The names of the small and dense records, each after the first preceded
\* by " and ".
RECURSIVE JoinedNames(_, _)
JoinedNames(records, first) ==
    IF records = <<>> THEN <<>>
    ELSE IF ~SmallAndDense(records[1]) THEN JoinedNames(Tail(records), first)
    ELSE (IF first THEN <<records[1].name>> ELSE <<" and ", records[1].name>>)
            \o JoinedNames(Tail(records), FALSE)

\* C13: after the scan of display_page serving_size_check is false iff some
\* record of the page is small and dense, and mindful_food is the names of
\* exactly those records, in page order, joined by " and ".
C13_ScanIsFilter ==
    (pc \in {"prompt", "crashed"} /\ mode = "nutrition") =>
        LET records == Shown(PageRecords(current_page))
        IN  /\ serving_size_check =
                  ~(\E i \in 1..Len(records) : SmallAndDense(records[i]))
            /\ mindful_food = JoinedNames(records, TRUE)

\* C13 witness: two small and dense records around a record that is not.
C13_Witness ==
    /\ pc = "prompt"
    /\ mode = "nutrition"
    /\ PageLength(current_page) = 3
    /\ ~SmallAndDense(PageRecords(current_page)[2])
    /\ PageRecords(current_page)[2].serving_size_g < 100
    /\ mindful_food = <<"A", " and ", "G">>

\* The sentence, if its condition holds.
Sentence(condition, text) == IF condition THEN <<text>> ELSE <<>>

\* The mindful-food warning, if serving_size_check is false.
Warning ==
    IF serving_size_check THEN <<>>
    ELSE <<"Be mindful of ">> \o mindful_food
            \o <<". Small amount occasionally can be okay">>

\* C14: the advice is chosen from the page totals alone: below 100 calories
\* the low-calorie message and nothing else; from 100 to 300 the balanced
\* message iff 10 <= fat <= 20, 5 <= protein <= 20 and sugar <= 10, and
\* otherwise the base message followed by exactly the suggestions whose
\* condition holds; above 300 the high-calorie message, with the warning iff
\* serving_size_check is false.
C14_Advice ==
    (pc = "prompt" /\ advice_shown) =>
        LET calories == page_calories
            fat == page_fat
            protein == page_protein
            sugar == page_sugar
            balanced == /\ 10 * 100 <= fat /\ fat <= 20 * 100
                        /\ 5 * 100 <= protein /\ protein <= 20 * 100
                        /\ sugar <= 10 * 100
        IN  /\ calories < 100 * 100 => nutritional_advice = <<"Low-calorie">>
            /\ (100 * 100 <= calories /\ calories <= 300 * 100 /\ balanced) =>
                  nutritional_advice = <<"Moderate-calorie: Balanced">>
            /\ (100 * 100 <= calories /\ calories <= 300 * 100 /\ ~balanced) =>
                  nutritional_advice =
                      <<"Moderate-calorie: Consider optimizing">>
                      \o Sentence(fat < 10 * 100, "Increase healthy fats")
                      \o Sentence(fat > 20 * 100, "Limit saturated fats")
                      \o Sentence(protein < 5 * 100, "Include more protein")
                      \o Sentence(sugar > 10 * 100, "Be mindful of added sugars")
                      \o Warning
            /\ calories > 300 * 100 =>
                  nutritional_advice = <<"High-calorie">> \o Warning

\* C14 witness: a page of 126.25 calories, short of fat and of protein.
C14_Witness ==
    /\ pc = "prompt"
    /\ advice_shown
    /\ page_calories = 12625
    /\ nutritional_advice = <<"Moderate-calorie: Consider optimizing",
                              "Increase healthy fats", "Include more protein">>

\* C15: a nutrition record that lacks serving_size_g or a numeric field does
\* not end the session: its page is rendered with the defaults (100 for
\* serving_size_g, 0 for a numeric field) and control is at the prompt.
C15_MissingFieldTolerated ==
    (/\ pc \in {"prompt", "crashed"}
     /\ mode = "nutrition"
     /\ \E i \in 1..PageLength(current_page) :
            ~Complete(PageRecords(current_page)[i])) =>
        /\ pc = "prompt"
        /\ page_calories = Total(PageRecords(current_page), "calories")

\* C16: for an empty result set the page shows the 'no results' placeholder,
\* and in either mode every command but m changes nothing: current_page,
\* eaten_pages, the saved exercises and the ledger stay as they are.
C16_EmptyResult ==
    [][/\ (pc = "menu" /\ pc' = "prompt" /\ Len(data') = 0) =>
            /\ out'.text = "No results found. Keep pushing!"
            /\ display_data' = <<>>
       /\ (pc = "prompt" /\ Length = 0) =>
            \A line \in Inputs :
                (Fold(line) # "m" /\ Command(line)) =>
                    UNCHANGED <<pc, page_size, config_page_size, session,
                                aggregate, store>>]_vars

\* C16 witness: s, u, e or another line was typed on the empty page of an
\* exercise session.
C16_Witness ==
    /\ pc = "prompt"
    /\ Length = 0
    /\ mode = "exercise"
    /\ out.text = "Invalid input."

\* C17: only m (in either case) ends the loop of paginate; after any other
\* line the command is carried out and the loop is back at its prompt; and
\* no command acts outside the loop.
C17_EndsOnlyByExit ==
    [][\A line \in Inputs :
        Command(line) =>
            /\ pc = "prompt"
            /\ Fold(line) = "m" => pc' = "menu"
            /\ Fold(line) # "m" => pc' = "prompt"]_vars

\* The size typed at the page-size prompt, 0 when it is not one of 1, 2, 3.
TypedSize(new_size) ==
    IF new_size = "1" THEN 1 ELSE IF new_size = "2" THEN 2
    ELSE IF new_size = "3" THEN 3 ELSE 0

\* C18: page_size is always 1, 2 or 3; set_page_size assigns it (and stores)
\* only such a value and leaves both alone on any other number, on a line
\* that is no number and on cancel; page_size does not change inside a
\* session, so total_pages stays the page count for it.
C18_PageSize ==
    [][/\ page_size \in 1..3 /\ page_size' \in 1..3
       /\ \A new_size \in SizeInputs :
            set_page_size(new_size) =>
                IF TypedSize(new_size) # 0
                THEN /\ page_size' = TypedSize(new_size)
                     /\ config_page_size' = <<TypedSize(new_size)>>
                ELSE UNCHANGED <<page_size, config_page_size>>
       /\ pc = "prompt" =>
            /\ page_size' = page_size
            /\ config_page_size' = config_page_size
            /\ total_pages = (Length + page_size - 1) \div page_size]_vars

\* C18 witness: a session of 7 records at the page size 3 that was set.
C18_Witness ==
    /\ pc = "prompt"
    /\ page_size = 3
    /\ config_page_size = <<3>>
    /\ Length = 7
    /\ total_pages = 3

\* The aggregate kept by the page object is the aggregate of the records of
\* the page on display.
AggregateIsCurrent ==
    LET records == PageRecords(current_page)
    IN  /\ page_calories = Total(records, "calories")
        /\ page_fat = Total(records, "fat_total_g")
        /\ page_protein = Total(records, "protein_g")
        /\ page_sugar = Total(records, "sugar_g")
        /\ serving_size_check =
              ~(\E i \in 1..Len(records) : SmallAndDense(records[i]))
        /\ mindful_food = JoinedNames(records, TRUE)

C20_WarningOnlyHighCalorie ==
    (pc = "prompt" /\ mode = "nutrition") =>
        /\ ~serving_size_check => page_calories > 300 * 100
        /\ (\E i \in 1..Len(nutritional_advice) :
                nutritional_advice[i] = "Be mindful of ") =>
              nutritional_advice[1] = "High-calorie"

\* C20 witness: a page of 320 calories whose one record is small and dense.
C20_Witness ==
    /\ pc = "prompt"
    /\ mode = "nutrition"
    /\ ~serving_size_check
    /\ page_calories = 32000
    /\ nutritional_advice = <<"High-calorie", "Be mindful of ", "A",
                              ". Small amount occasionally can be okay">>

\* C21: in exercise mode on a non-empty page, save and unsave act on the
\* last record of the current page, which is what display_data holds, and on
\* no record of that page of another name, whatever the page size; and at
\* each prompt exactly one of s / u is offered: u iff the name of that last
\* record is saved, s otherwise.
C21_LastRecordOfPage ==
    [][(pc = "prompt" /\ mode = "exercise" /\ PageLength(current_page) > 0) =>
        LET records == PageRecords(current_page)
            last == records[Len(records)]
            row == [ExerciseName |-> last.name, ExerciseDetails |-> last]
        IN  /\ page_size \in 1..3
            /\ display_data = <<last>>
            /\ SaveStep =>
                  saved' = IF RowsNamed(saved, last.name) = {}
                           THEN saved \cup {row} ELSE saved
            /\ UnsaveStep => saved' = saved \ RowsNamed(saved, last.name)
            /\ \A i \in 1..Len(records) :
                  records[i].name # last.name =>
                      RowsNamed(saved', records[i].name)
                          = RowsNamed(saved, records[i].name)
            /\ ("u" \in input_text) = (RowsNamed(saved, last.name) # {})
            /\ ("s" \in input_text) = (RowsNamed(saved, last.name) = {})]_vars

\* C21 witness: on a page of two records the second one was saved and the
\* first one, of another name, is not in the table; u is offered.
C21_Witness ==
    /\ pc = "prompt"
    /\ mode = "exercise"
    /\ page_size = 2
    /\ PageLength(current_page) = 2
    /\ out.text = "Exercise has been saved."
    /\ LET records == PageRecords(current_page)
       IN  /\ records[1].name # records[2].name
           /\ saved = {[ExerciseName |-> records[2].name,
                        ExerciseDetails |-> records[2]]}
    /\ "u" \in input_text
    /\ "s" \notin input_text

====
